---- MODULE Spec2Model ----
(***************************************************************************)
(* A model of regex_search.py: the RegularExpressionFinder run (compile   *)
(* the pattern, read the files or STDIN line by line, finditer, format)   *)
(* and the four OutputFormatter strategies.                               *)
(*                                                                         *)
(* Text is a sequence of one-character strings.  Offsets are 0-based as   *)
(* in Python; sequences are 1-based, so the character at offset i of s is *)
(* s[i + 1].  The byte 0x1b is written "ESC".                             *)
(***************************************************************************)
EXTENDS Integers, Sequences, FiniteSets, TLC

VARIABLES
    pc,            \* position of the run
    pattern,       \* -r/--regex: the pattern text
    files,         \* -f/--files: a sequence of file names, or None
    flags,         \* -u/-c/-m: the output-mode flags
    disk,          \* file name -> a readable file, a missing one or an unreadable one
    stdin,         \* what sys.stdin holds
    sink_ok,       \* whether json_output_file.json can be opened for appending
    compiled,      \* self.pattern after re.compile
    file_idx,      \* position of get_content's loop in self.files
    file_name,     \* the source identifier passed to search_matches
    lines,         \* the lines of the source being iterated (terminators kept)
    line_no,       \* enumerate's counter
    line,          \* the line after line.replace("\n", "")
    matches,       \* the iterator finditer returned
    stdout,        \* everything printed
    artifact,      \* the content of json_output_file.json
    exit_status,   \* the process exit status (None while running)
    outcome,       \* how the run ended (None while running)
    artifact0,     \* history: the artifact before the run
    events         \* history: open / format / close, in order

vars == << pc, pattern, files, flags, disk, stdin, sink_ok, compiled, file_idx,
           file_name, lines, line_no, line, matches, stdout, artifact,
           exit_status, outcome, artifact0, events >>

NL == "\n"

(***************************************************************************)
(* Bounds of the model.                                                    *)
(***************************************************************************)
\* longest file content (characters, newlines included) on the disk of a run
MaxContent == 3
\* longest line handed to the match engine and the formatters on its own
MaxLen == 4

(***************************************************************************)
(* Text helpers.                                                           *)
(***************************************************************************)
Min(a, b) == IF a < b THEN a ELSE b

\* c * n of Python: the empty string when n <= 0
Rep(c, n) == IF n <= 0 THEN << >> ELSE [i \in 1..n |-> c]

\* s[a:b] of Python for 0 <= a
Slice(s, a, b) == SubSeq(s, a + 1, Min(b, Len(s)))

\* s[a:] of Python for 0 <= a
SliceFrom(s, a) == SubSeq(s, a + 1, Len(s))

Digit(d) ==
    CASE d = 0 -> "0" [] d = 1 -> "1" [] d = 2 -> "2" [] d = 3 -> "3"
      [] d = 4 -> "4" [] d = 5 -> "5" [] d = 6 -> "6" [] d = 7 -> "7"
      [] d = 8 -> "8" [] d = 9 -> "9"

\* str(n) for n >= 0, as f"{n}" renders an int
RECURSIVE Str(_)
Str(n) == IF n < 10 THEN << Digit(n) >> ELSE Str(n \div 10) \o << Digit(n % 10) >>

\* all texts over alphabet of length at most n
RECURSIVE TextsOfLen(_, _)
TextsOfLen(alphabet, n) ==
    IF n = 0 THEN { << >> }
    ELSE { Append(t, c) : t \in TextsOfLen(alphabet, n - 1), c \in alphabet }

Texts(alphabet, n) == UNION { TextsOfLen(alphabet, k) : k \in 0..n }

\* iterating a text file / readlines(): lines end after each "\n", which is kept
RECURSIVE SplitLines(_)
SplitLines(content) ==
    IF content = << >> THEN << >>
    ELSE LET nls == { i \in 1..Len(content) : content[i] = NL }
         IN  IF nls = {} THEN << content >>
             ELSE LET i == CHOOSE j \in nls : \A k \in nls : j <= k
                  IN  << SubSeq(content, 1, i) >>
                          \o SplitLines(SubSeq(content, i + 1, Len(content)))

\* line.replace("\n", "")
ReplaceNL(s) == SelectSeq(s, LAMBDA c : c # NL)

(***************************************************************************)
(* re.compile and finditer.  A compiled pattern is a tree; Ends lists the  *)
(* offsets at which a match of r starting at offset i can end, in the     *)
(* order the backtracking matcher tries them.                              *)
(***************************************************************************)
Digits == { "0", "1", "2", "3", "4", "5", "6", "7", "8", "9" }

Eps == [op |-> "eps"]
Lit(c) == [op |-> "lit", c |-> c]
AnyDigit == [op |-> "digit"]
Cat(l, r) == [op |-> "cat", l |-> l, r |-> r]
Alt(l, r) == [op |-> "alt", l |-> l, r |-> r]
Star(l) == [op |-> "star", l |-> l]
LazyStar(l) == [op |-> "lazystar", l |-> l]
Plus(l) == Cat(l, Star(l))

\* the pattern texts of the model
ValidPatterns == { "a+", "a*", "|a", "a*?", "b", "ab|a", "\\d+", "x" }
InvalidPatterns == { "(" }

\* re.compile: the tree of a pattern text, or re.error
Compile(p) ==
    CASE p = "a+" -> Plus(Lit("a"))
      [] p = "a*" -> Star(Lit("a"))
      [] p = "|a" -> Alt(Eps, Lit("a"))
      [] p = "a*?" -> LazyStar(Lit("a"))
      [] p = "b" -> Lit("b")
      [] p = "ab|a" -> Alt(Cat(Lit("a"), Lit("b")), Lit("a"))
      [] p = "\\d+" -> Plus(AnyDigit)
      [] p = "x" -> Lit("x")
      [] OTHER -> [op |-> "re.error"]

RECURSIVE Ends(_, _, _)
Ends(r, s, i) ==
    CASE r.op = "eps" -> << i >>
      [] r.op = "lit" -> IF i < Len(s) /\ s[i + 1] = r.c THEN << i + 1 >> ELSE << >>
      [] r.op = "digit" -> IF i < Len(s) /\ s[i + 1] \in Digits THEN << i + 1 >> ELSE << >>
      [] r.op = "alt" -> Ends(r.l, s, i) \o Ends(r.r, s, i)
      [] r.op = "cat" ->
            LET es == Ends(r.l, s, i)
                F[k \in 0..Len(es)] ==
                    IF k = 0 THEN << >> ELSE F[k - 1] \o Ends(r.r, s, es[k])
            IN  F[Len(es)]
      [] r.op = "star" ->
            LET es == SelectSeq(Ends(r.l, s, i), LAMBDA e : e > i)
                F[k \in 0..Len(es)] ==
                    IF k = 0 THEN << >> ELSE F[k - 1] \o Ends(r, s, es[k])
            IN  F[Len(es)] \o << i >>
      [] r.op = "lazystar" ->
            LET es == SelectSeq(Ends(r.l, s, i), LAMBDA e : e > i)
                F[k \in 0..Len(es)] ==
                    IF k = 0 THEN << >> ELSE F[k - 1] \o Ends(r, s, es[k])
            IN  << i >> \o F[Len(es)]

\* pattern.finditer(line): the iterator before its first step
Finditer == [pos |-> 0, must_advance |-> FALSE, done |-> FALSE]

\* the ends the scanner accepts for an attempt at offset p: after an empty
\* match the first attempt, at the same offset, must not be empty again
Accepted(r, s, it, p) ==
    LET es == Ends(r, s, p)
    IN  IF it.must_advance /\ p = it.pos THEN SelectSeq(es, LAMBDA e : e # p) ELSE es

\* a scanner that resumes one past the start of the match it found
IterAfterOverlap(start, end) == [pos |-> start + 1, must_advance |-> FALSE, done |-> FALSE]

\* where the scanner resumes after a match from start to end
IterAfter(start, end) == [pos |-> end, must_advance |-> (end = start), done |-> FALSE]

\* one step of the iterator: the next match and the iterator after it
IterNext(r, s, it) ==
    LET starts == { p \in it.pos..Len(s) : Accepted(r, s, it, p) # << >> }
    IN  IF it.done \/ starts = {}
        THEN [found |-> FALSE, it |-> [it EXCEPT !.done = TRUE]]
        ELSE LET p == CHOOSE q \in starts : \A q2 \in starts : q <= q2
                 e == Head(Accepted(r, s, it, p))
             IN  [found |-> TRUE,
                  m |-> [start |-> p, end |-> e, group |-> SubSeq(s, p + 1, e)],
                  it |-> IterAfter(p, e)]

\* "for match in matches": the matches the loop sees
RECURSIVE Drain(_, _, _)
Drain(r, s, it) ==
    LET n == IterNext(r, s, it)
    IN  IF n.found THEN << n.m >> \o Drain(r, s, n.it) ELSE << >>

\* a match sequence that can be walked again from its start
ExhaustNot(it) == it

\* the iterator after a "for match in matches" loop has run to its end
Exhaust(it) == [it EXCEPT !.done = TRUE]

(***************************************************************************)
(* The four formatters.  Each is given the matches its for loop sees and   *)
(* yields what it prints.                                                  *)
(***************************************************************************)
\* "\033[91m" and "\033[00m"
ColorOn == << "ESC", "[", "9", "1", "m" >>
ColorOff == << "ESC", "[", "0", "0", "m" >>

\* print(text): the text and a newline
PrintLn(text) == text \o << NL >>

DefaultLine(fname, lno, m) ==
    PrintLn(<< "f", "i", "l", "e", " ", "n", "a", "m", "e", ":", " " >> \o fname
            \o << ",", " ", "l", "i", "n", "e", ":", " " >> \o Str(lno)
            \o << ",", " ", "m", "a", "t", "c", "h", "e", "d", "_", "t", "e", "x", "t", ":", " " >>
            \o m.group)

DefaultFormat(fname, ln, lno, ms) ==
    LET F[k \in 0..Len(ms)] ==
            IF k = 0 THEN << >> ELSE F[k - 1] \o DefaultLine(fname, lno, ms[k])
    IN  F[Len(ms)]

\* the loop without "last_index = match.end()"
UnderscoreStepNoLast(acc, m) ==
    [output |-> acc.output \o Rep(" ", m.start - acc.last_index)
                    \o Rep("^", m.end - m.start),
     last_index |-> acc.last_index]

\* the loop with one caret too few for each match
UnderscoreStepShort(acc, m) ==
    [output |-> acc.output \o Rep(" ", m.start - acc.last_index)
                    \o Rep("^", m.end - m.start - 1),
     last_index |-> m.end]

\* one turn of UnderscoreFormatter's loop on the pair (output, last_index)
UnderscoreStep(acc, m) ==
    [output |-> acc.output \o Rep(" ", m.start - acc.last_index)
                    \o Rep("^", m.end - m.start),
     last_index |-> m.end]

\* the string UnderscoreFormatter builds under the line
UnderscoreOutput(ms) ==
    LET F[k \in 0..Len(ms)] ==
            IF k = 0 THEN [output |-> << >>, last_index |-> 0]
            ELSE UnderscoreStep(F[k - 1], ms[k])
    IN  F[Len(ms)].output

UnderscoreFormat(fname, ln, lno, ms) == PrintLn(ln) \o PrintLn(UnderscoreOutput(ms))

\* one turn of ColorFormatter's loop on the pair (output, last_index)
ColorStep(ln, acc, m) ==
    [output |-> acc.output \o Slice(ln, acc.last_index, m.start)
                    \o ColorOn \o Slice(ln, m.start, m.end) \o ColorOff,
     last_index |-> m.end]

ColorLoop(ln, ms) ==
    LET F[k \in 0..Len(ms)] ==
            IF k = 0 THEN [output |-> << >>, last_index |-> 0]
            ELSE ColorStep(ln, F[k - 1], ms[k])
    IN  F[Len(ms)]

\* the formatter without the text after the last match
ColorTailDropped(ln, last_index) == PrintLn(<< >>)

\* print(line[last_index:]) after print(output, end="")
ColorTail(ln, last_index) == PrintLn(SliceFrom(ln, last_index))

ColorFormat(fname, ln, lno, ms) ==
    LET acc == ColorLoop(ln, ms) IN acc.output \o ColorTail(ln, acc.last_index)

\* f"{file_name}:{line_no}:{match.start()}:{match.group()}"
MachineRecord(fname, lno, m) ==
    fname \o << ":" >> \o Str(lno) \o << ":" >> \o Str(m.start) \o << ":" >> \o m.group

MachineData(fname, lno, ms) == [k \in 1..Len(ms) |-> MachineRecord(fname, lno, ms[k])]

\* a string as json writes it
JsonString(s) ==
    LET F[k \in 0..Len(s)] ==
            IF k = 0 THEN << >>
            ELSE F[k - 1] \o (CASE s[k] = "\"" -> << "\\", "\"" >>
                                [] s[k] = "\\" -> << "\\", "\\" >>
                                [] OTHER -> << s[k] >>)
    IN  << "\"" >> \o F[Len(s)] \o << "\"" >>

\* json.dump(data, file, indent=4) of a list of strings
JsonDump(data) ==
    IF data = << >> THEN << "[", "]" >>
    ELSE LET F[k \in 0..Len(data)] ==
                 IF k = 0 THEN << >>
                 ELSE F[k - 1] \o (IF k = 1 THEN << >> ELSE << "," >>)
                          \o << NL, " ", " ", " ", " " >> \o JsonString(data[k])
         IN  << "[" >> \o F[Len(data)] \o << NL, "]" >>

\* open("json_output_file.json", "w")
OpenTruncate(content) == << >>

\* open("json_output_file.json", "a"): what the file holds as writing starts
OpenAppend(content) == content

\* a Machine formatter that writes only when the line had a match
MachineWriteIfAny(content, data) ==
    IF data = << >> THEN content ELSE content \o JsonDump(data)

\* what MachineFormatter leaves in the artifact
MachineWrite(content, data) == OpenAppend(content) \o JsonDump(data)

\* the mutually exclusive flag settings argparse lets through
Flags == { [underscore |-> FALSE, color |-> FALSE, machine |-> FALSE],
           [underscore |-> TRUE, color |-> FALSE, machine |-> FALSE],
           [underscore |-> FALSE, color |-> TRUE, machine |-> FALSE],
           [underscore |-> FALSE, color |-> FALSE, machine |-> TRUE] }

\* output_formatted_data's choice of formatter
Formatter(fl) ==
    IF fl.underscore THEN "underscore"
    ELSE IF fl.color THEN "color"
    ELSE IF fl.machine THEN "machine"
    ELSE "default"

\* formatter.format(...): what is printed
Printed(fmt, fname, ln, lno, ms) ==
    CASE fmt = "default" -> DefaultFormat(fname, ln, lno, ms)
      [] fmt = "underscore" -> UnderscoreFormat(fname, ln, lno, ms)
      [] fmt = "color" -> ColorFormat(fname, ln, lno, ms)
      [] fmt = "machine" -> << >>

(***************************************************************************)
(* The inputs of a run.                                                    *)
(***************************************************************************)
F == << "f" >>
G == << "g" >>
NoFile == << "n", "o", "f", "i", "l", "e", ".", "t", "x", "t" >>
Locked == << "l", "o", "c", "k", "e", "d" >>
StdinName == << "S", "T", "D", "I", "N" >>

\* args.files when -f is not given (nargs="+" admits no empty list)
NoFiles == << >>

FileLists == { << F >>, << F, G >>, << G, F >>, << F, NoFile, G >>,
               << NoFile, F >>, << F, Locked, G >> }

RunPatterns == { "a+", "|a", "b", "(" }

Contents == Texts({ "a", "b", NL }, MaxContent)

GContent == << "b", "a", NL, NL, "a", "b", "a" >>

File(content) == [kind |-> "file", content |-> content]

\* the disk: f holds c, g a fixed text, nofile.txt is absent, locked is unreadable
Disk(c) ==
    [n \in { F, G, NoFile, Locked } |->
        CASE n = F -> File(c)
          [] n = G -> File(GContent)
          [] n = NoFile -> [kind |-> "missing"]
          [] n = Locked -> [kind |-> "unreadable"]]

\* enumerate(file)
EnumerateFromZero == 1 - 1

\* enumerate(file, 1): the number of the first line
EnumerateStart == 1

\* how many lines the for loop of search_matches has taken when its counter is n
Taken(n) == n - EnumerateStart + 1

\* exit() with no argument, an uncaught exception, and running off the end of main()
ExitNoArgument == 0
UncaughtException == 1
NormalEnd == 0

Init ==
    /\ pc = "init"
    /\ pattern \in RunPatterns
    /\ files \in FileLists \cup { NoFiles }
    /\ flags \in Flags
    /\ disk \in IF files = NoFiles THEN { Disk(<< >>) } ELSE { Disk(c) : c \in Contents }
    /\ stdin \in IF files = NoFiles THEN Contents ELSE { << >> }
    /\ sink_ok \in IF flags.machine THEN BOOLEAN ELSE { TRUE }
    /\ artifact0 \in IF flags.machine THEN { << >>, << "[", "]" >> } ELSE { << >> }
    /\ artifact = artifact0
    /\ compiled = [op |-> "none"]
    /\ file_idx = 0
    /\ file_name = << >>
    /\ lines = << >>
    /\ line_no = 0
    /\ line = << >>
    /\ matches = Exhaust(Finditer)
    /\ stdout = << >>
    /\ exit_status = -1
    /\ outcome = "running"
    /\ events = << >>

\* the process ends: nothing runs after it
Terminate(status, how) ==
    /\ pc' = "exited"
    /\ exit_status' = status
    /\ outcome' = how

(***************************************************************************)
(* RegularExpressionFinder.__init__                                        *)
(***************************************************************************)
CompileOk ==
    /\ pc = "init"
    /\ Compile(pattern).op # "re.error"
    /\ compiled' = Compile(pattern)
    /\ file_idx' = 1
    /\ pc' = "get_content"
    /\ UNCHANGED << pattern, files, flags, disk, stdin, sink_ok, file_name, lines,
                    line_no, line, matches, stdout, artifact, exit_status, outcome,
                    artifact0, events >>

CompileError ==
    /\ pc = "init"
    /\ Compile(pattern).op = "re.error"
    /\ stdout' = stdout \o PrintLn(<< "I", "n", "v", "a", "l", "i", "d", " ", "r", "e",
                                      "g", "u", "l", "a", "r", " ", "e", "x", "p", "r",
                                      "e", "s", "s", "i", "o", "n" >>)
    /\ Terminate(ExitNoArgument, "InvalidPattern")
    /\ UNCHANGED << pattern, files, flags, disk, stdin, sink_ok, compiled, file_idx,
                    file_name, lines, line_no, line, matches, artifact, artifact0,
                    events >>

(***************************************************************************)
(* get_content                                                             *)
(***************************************************************************)
AtFile == pc = "get_content" /\ files # NoFiles /\ file_idx <= Len(files)

OpenFile ==
    /\ AtFile
    /\ disk[files[file_idx]].kind = "file"
    /\ file_name' = files[file_idx]
    /\ lines' = SplitLines(disk[files[file_idx]].content)
    /\ line_no' = EnumerateStart - 1
    /\ events' = Append(events, [op |-> "open", idx |-> file_idx, name |-> files[file_idx]])
    /\ pc' = "search_matches"
    /\ UNCHANGED << pattern, files, flags, disk, stdin, sink_ok, compiled, file_idx,
                    line, matches, stdout, artifact, exit_status, outcome, artifact0 >>

\* a get_content that reports the missing file and goes on to the next
OpenFileNotFoundSkip ==
    /\ pc = "get_content" /\ files # << >> /\ file_idx <= Len(files)
    /\ disk[files[file_idx]].kind = "missing"
    /\ stdout' = stdout \o PrintLn(<< "F", "i", "l", "e", " ", "n", "o", "t", " ", "f",
                                      "o", "u", "n", "d", " ", "e", "r", "r", "o", "r",
                                      ":", " " >> \o files[file_idx])
    /\ file_idx' = file_idx + 1
    /\ UNCHANGED << pc, pattern, files, flags, disk, stdin, sink_ok, compiled,
                    file_name, lines, line_no, line, matches, artifact, exit_status,
                    outcome, artifact0, events >>

OpenFileNotFound ==
    /\ AtFile
    /\ disk[files[file_idx]].kind = "missing"
    /\ stdout' = stdout \o PrintLn(<< "F", "i", "l", "e", " ", "n", "o", "t", " ", "f",
                                      "o", "u", "n", "d", " ", "e", "r", "r", "o", "r",
                                      ":", " " >> \o files[file_idx])
    /\ Terminate(ExitNoArgument, "FileNotFoundError")
    /\ UNCHANGED << pattern, files, flags, disk, stdin, sink_ok, compiled, file_idx,
                    file_name, lines, line_no, line, matches, artifact, artifact0,
                    events >>

\* open raises PermissionError, which get_content does not catch
OpenFileUnreadable ==
    /\ AtFile
    /\ disk[files[file_idx]].kind = "unreadable"
    /\ Terminate(UncaughtException, "PermissionError")
    /\ UNCHANGED << pattern, files, flags, disk, stdin, sink_ok, compiled, file_idx,
                    file_name, lines, line_no, line, matches, stdout, artifact,
                    artifact0, events >>

\* the for loop over self.files is over: get_content, __init__ and main return
FilesDone ==
    /\ pc = "get_content"
    /\ files # NoFiles
    /\ file_idx > Len(files)
    /\ Terminate(NormalEnd, "Done")
    /\ UNCHANGED << pattern, files, flags, disk, stdin, sink_ok, compiled, file_idx,
                    file_name, lines, line_no, line, matches, stdout, artifact,
                    artifact0, events >>

ReadStdin ==
    /\ pc = "get_content"
    /\ files = NoFiles
    /\ stdout' = stdout \o PrintLn(
         << "E", "n", "t", "e", "r", " ", "t", "e", "x", "t", " ", "t", "o", " ", "s",
            "e", "a", "r", "c", "h", "e", "s", " ", "f", "o", "r", " ", "l", "i", "n",
            "e", "s", " ", "m", "a", "t", "c", "h", "i", "n", "g", " ", "r", "e", "g",
            "u", "l", "a", "r", " ", "e", "x", "p", "r", "e", "s", "s", "i", "o", "n",
            "(", "P", "r", "e", "s", "s", " ", "C", "T", "R", "L", "+", "D", " ", "(",
            "U", "n", "i", "x", ")", " ", "o", "r", " ", "C", "T", "R", "L", "+", "Z",
            " ", "(", "W", "i", "n", "d", "o", "w", "s", ")", " ", "t", "o", " ", "e",
            "x", "i", "t", ")", ":", " " >>)
    /\ file_name' = StdinName
    /\ lines' = SplitLines(stdin)
    /\ line_no' = EnumerateStart - 1
    /\ pc' = "search_matches"
    /\ UNCHANGED << pattern, files, flags, disk, stdin, sink_ok, compiled, file_idx,
                    line, matches, artifact, exit_status, outcome, artifact0, events >>

(***************************************************************************)
(* search_matches and output_formatted_data                                *)
(***************************************************************************)
\* the head of the for loop: the next line, stripped, and its match iterator
NextLine ==
    /\ pc = "search_matches"
    /\ Taken(line_no) < Len(lines)
    /\ line_no' = line_no + 1
    /\ line' = ReplaceNL(lines[Taken(line_no) + 1])
    /\ matches' = Finditer
    /\ pc' = "format"
    /\ UNCHANGED << pattern, files, flags, disk, stdin, sink_ok, compiled, file_idx,
                    file_name, lines, stdout, artifact, exit_status, outcome,
                    artifact0, events >>

\* where control is after a call of output_formatted_data made at position p
AfterFormat(p) ==
    CASE p = "format" -> "search_matches"
      [] p = "first_call" -> "called_once"
      [] p = "second_call_same" -> "called_twice_same"
      [] p = "second_call_fresh" -> "called_twice_fresh"

AtFormat == pc \in { "format", "first_call", "second_call_same", "second_call_fresh" }

\* output_formatted_data with a formatter that prints
FormatPrinted ==
    /\ AtFormat
    /\ Formatter(flags) # "machine"
    /\ LET ms == Drain(compiled, line, matches)
           out == Printed(Formatter(flags), file_name, line, line_no, ms)
       IN  /\ stdout' = stdout \o out
           /\ events' = Append(events, [op |-> "format", name |-> file_name,
                                        line_no |-> line_no, line |-> line,
                                        seen |-> ms, out |-> out,
                                        before |-> artifact, after |-> artifact])
    /\ matches' = Exhaust(matches)
    /\ pc' = AfterFormat(pc)
    /\ UNCHANGED << pattern, files, flags, disk, stdin, sink_ok, compiled, file_idx,
                    file_name, lines, line_no, line, artifact, exit_status, outcome,
                    artifact0 >>

\* output_formatted_data with the Machine formatter
FormatMachine ==
    /\ AtFormat
    /\ Formatter(flags) = "machine"
    /\ sink_ok
    /\ LET ms == Drain(compiled, line, matches)
       IN  /\ artifact' = MachineWrite(artifact, MachineData(file_name, line_no, ms))
           /\ events' = Append(events, [op |-> "format", name |-> file_name,
                                        line_no |-> line_no, line |-> line,
                                        seen |-> ms, out |-> << >>,
                                        before |-> artifact, after |-> artifact'])
    /\ matches' = Exhaust(matches)
    /\ pc' = AfterFormat(pc)
    /\ UNCHANGED << pattern, files, flags, disk, stdin, sink_ok, compiled, file_idx,
                    file_name, lines, line_no, line, stdout, exit_status, outcome,
                    artifact0 >>

\* the Machine formatter's open raises OSError, which nothing catches
FormatMachineSinkError ==
    /\ AtFormat
    /\ Formatter(flags) = "machine"
    /\ ~sink_ok
    /\ matches' = Exhaust(matches)
    /\ Terminate(UncaughtException, "SinkWriteError")
    /\ UNCHANGED << pattern, files, flags, disk, stdin, sink_ok, compiled, file_idx,
                    file_name, lines, line_no, line, stdout, artifact, artifact0,
                    events >>

\* the for loop of search_matches is over for a file: file.close(), next file
CloseFile ==
    /\ pc = "search_matches"
    /\ files # NoFiles
    /\ Taken(line_no) >= Len(lines)
    /\ events' = Append(events, [op |-> "close", idx |-> file_idx, name |-> file_name])
    /\ file_idx' = file_idx + 1
    /\ pc' = "get_content"
    /\ UNCHANGED << pattern, files, flags, disk, stdin, sink_ok, compiled, file_name,
                    lines, line_no, line, matches, stdout, artifact, exit_status,
                    outcome, artifact0 >>

\* the for loop of search_matches is over for STDIN: everything returns
StdinDone ==
    /\ pc = "search_matches"
    /\ files = NoFiles
    /\ Taken(line_no) >= Len(lines)
    /\ Terminate(NormalEnd, "Done")
    /\ UNCHANGED << pattern, files, flags, disk, stdin, sink_ok, compiled, file_idx,
                    file_name, lines, line_no, line, matches, stdout, artifact,
                    artifact0, events >>

Next ==
    \/ CompileOk
    \/ CompileError
    \/ OpenFile
    \/ OpenFileNotFound
    \/ OpenFileUnreadable
    \/ FilesDone
    \/ ReadStdin
    \/ NextLine
    \/ FormatPrinted
    \/ FormatMachine
    \/ FormatMachineSinkError
    \/ CloseFile
    \/ StdinDone

Spec == Init /\ [][Next]_vars

(***************************************************************************)
(* A driver for one line: the body of search_matches' loop on a line of    *)
(* its own, then a second call of the formatter, either on the iterator    *)
(* the first call was given or on a new one.                               *)
(***************************************************************************)
LineAlphabet == { "a", "b", "7" }

LineNumbers == { 1, 5, 12 }

InitLine ==
    /\ pc = "line"
    /\ pattern \in ValidPatterns
    /\ files = << F >>
    /\ flags \in Flags
    /\ disk = Disk(<< >>)
    /\ stdin = << >>
    /\ sink_ok = TRUE
    /\ artifact0 = << >>
    /\ artifact = artifact0
    /\ compiled = Compile(pattern)
    /\ file_idx = 1
    /\ file_name = F
    /\ line \in Texts(LineAlphabet, MaxLen)
    /\ lines = << line >>
    /\ line_no \in LineNumbers
    /\ matches = Exhaust(Finditer)
    /\ stdout = << >>
    /\ exit_status = -1
    /\ outcome = "running"
    /\ events = << >>

\* matches = self.pattern.finditer(line)
CallFinditer ==
    /\ pc = "line"
    /\ matches' = Finditer
    /\ pc' = "first_call"
    /\ UNCHANGED << pattern, files, flags, disk, stdin, sink_ok, compiled, file_idx,
                    file_name, lines, line_no, line, stdout, artifact, exit_status,
                    outcome, artifact0, events >>

\* the second call is given the iterator of the first
CallAgainSame ==
    /\ pc = "called_once"
    /\ pc' = "second_call_same"
    /\ UNCHANGED << pattern, files, flags, disk, stdin, sink_ok, compiled, file_idx,
                    file_name, lines, line_no, line, matches, stdout, artifact,
                    exit_status, outcome, artifact0, events >>

\* the second call is given a new iterator over the same line
CallAgainFresh ==
    /\ pc = "called_once"
    /\ matches' = Finditer
    /\ pc' = "second_call_fresh"
    /\ UNCHANGED << pattern, files, flags, disk, stdin, sink_ok, compiled, file_idx,
                    file_name, lines, line_no, line, stdout, artifact, exit_status,
                    outcome, artifact0, events >>

NextLineDriver ==
    \/ CallFinditer
    \/ FormatPrinted
    \/ FormatMachine
    \/ CallAgainSame
    \/ CallAgainFresh

SpecLine == InitLine /\ [][NextLineDriver]_vars

(***************************************************************************)
(* What the properties below read off the history.                         *)
(***************************************************************************)
IsFormat(e) == e.op = "format"

FormatEvents == SelectSeq(events, IsFormat)

IsPrefix(a, b) == Len(a) <= Len(b) /\ SubSeq(b, 1, Len(a)) = a

\* an event without what the formatter saw and wrote
Shape(e) ==
    IF e.op = "format"
    THEN [op |-> "format", name |-> e.name, line_no |-> e.line_no, line |-> e.line]
    ELSE [op |-> e.op, idx |-> e.idx, name |-> e.name]

Shapes(es) == [k \in 1..Len(es) |-> Shape(es[k])]

\* the text of a line of a source without its terminator
Stripped(l) == IF l # << >> /\ l[Len(l)] = NL THEN SubSeq(l, 1, Len(l) - 1) ELSE l

\* one format per line of a source called name, numbered from 1
ExpectedFormats(name, content) ==
    LET ls == SplitLines(content)
    IN  [i \in 1..Len(ls) |->
            [op |-> "format", name |-> name, line_no |-> i, line |-> Stripped(ls[i])]]

\* open, one format per line, close: for the files at positions 1..n in order
RECURSIVE ExpectedFiles(_)
ExpectedFiles(n) ==
    IF n = 0 THEN << >>
    ELSE ExpectedFiles(n - 1)
            \o << [op |-> "open", idx |-> n, name |-> files[n]] >>
            \o ExpectedFormats(files[n], disk[files[n]].content)
            \o << [op |-> "close", idx |-> n, name |-> files[n]] >>

\* the positions in the files list of files that cannot be opened
BadFiles == { k \in 1..Len(files) : disk[files[k]].kind # "file" }

FirstBad == CHOOSE k \in BadFiles : \A j \in BadFiles : k <= j

\* offset p lies in a match of ms
IsCovered(ms, p) == \E k \in 1..Len(ms) : ms[k].start <= p /\ p < ms[k].end

LastEnd(ms) == IF ms = << >> THEN 0 ELSE ms[Len(ms)].end

RECURSIVE SumWidths(_)
SumWidths(ms) ==
    IF ms = << >> THEN 0 ELSE (Head(ms).end - Head(ms).start) + SumWidths(Tail(ms))

\* the second line an Underscore call printed, given it printed the line first
CaretLine(e) == SubSeq(e.out, Len(e.line) + 2, Len(e.out) - 1)

\* the call printed the raw line, a newline, a second line and a newline
TwoLines(e) ==
    /\ Len(e.out) >= Len(e.line) + 2
    /\ SubSeq(e.out, 1, Len(e.line)) = e.line
    /\ e.out[Len(e.line) + 1] = NL
    /\ e.out[Len(e.out)] = NL
    /\ \A p \in 1..Len(CaretLine(e)) : CaretLine(e)[p] # NL

\* reading colored output: the text with the escape sequences removed, and
\* the texts between a color escape and the reset after it, in order
RECURSIVE Uncolor(_, _, _, _)
Uncolor(out, inside, cur, acc) ==
    IF out = << >> THEN [acc EXCEPT !.balanced = ~inside]
    ELSE IF ~inside /\ IsPrefix(ColorOn, out)
    THEN Uncolor(SubSeq(out, Len(ColorOn) + 1, Len(out)), TRUE, << >>, acc)
    ELSE IF inside /\ IsPrefix(ColorOff, out)
    THEN Uncolor(SubSeq(out, Len(ColorOff) + 1, Len(out)), FALSE, << >>,
                 [acc EXCEPT !.wrapped = Append(@, cur)])
    ELSE Uncolor(Tail(out), inside, IF inside THEN Append(cur, Head(out)) ELSE cur,
                 [acc EXCEPT !.plain = Append(@, Head(out))])

Uncolored(out) ==
    Uncolor(out, FALSE, << >>, [plain |-> << >>, wrapped |-> << >>, balanced |-> TRUE])

Groups(ln, ms) == [k \in 1..Len(ms) |-> SubSeq(ln, ms[k].start + 1, ms[k].end)]

\* gaps and spans of ms over ln, in order, and the text after the last span
RECURSIVE Rebuilt(_, _, _)
Rebuilt(ln, ms, last) ==
    IF ms = << >> THEN SubSeq(ln, last + 1, Len(ln))
    ELSE SubSeq(ln, last + 1, Head(ms).start)
            \o SubSeq(ln, Head(ms).start + 1, Head(ms).end)
            \o Rebuilt(ln, Tail(ms), Head(ms).end)

RECURSIVE Flatten(_)
Flatten(ss) == IF ss = << >> THEN << >> ELSE Head(ss) \o Flatten(Tail(ss))

(***************************************************************************)
(* The run: exit status, fatal errors, order of the calls, the artifact.   *)
(***************************************************************************)
\* C1: the exit status is 0 exactly when the run completes normally after
\* exhausting all sources, and non-zero when it ends on an invalid pattern,
\* a file that cannot be opened or a sink that cannot be written.
C1_ExitStatusContract ==
    pc = "exited" => ((exit_status = 0) <=> (outcome = "Done"))

\* C2: after a fatal error nothing more is done.  When the pattern does not
\* compile no source is opened and no formatter is called; when the first
\* file that cannot be opened is a missing one at position k, the history is
\* never more than open, one format per line, close for the files 1..k-1, it
\* is exactly that when the run has ended on the missing file, and the
\* process has then no step left.
C2_NoWorkAfterFatalError ==
    /\ Compile(pattern).op = "re.error" =>
          /\ events = << >>
          /\ artifact = artifact0
          /\ pc \in { "init", "exited" }
    /\ (/\ Compile(pattern).op # "re.error"
        /\ files # NoFiles
        /\ BadFiles # {}
        /\ disk[files[FirstBad]].kind = "missing") =>
          /\ IsPrefix(Shapes(events), ExpectedFiles(FirstBad - 1))
          /\ outcome = "FileNotFoundError" => Shapes(events) = ExpectedFiles(FirstBad - 1)
          /\ pc = "get_content" /\ file_idx = FirstBad =>
                Shapes(events) = ExpectedFiles(FirstBad - 1)
          /\ file_idx <= FirstBad
    /\ outcome \in { "InvalidPattern", "FileNotFoundError" } => ~ENABLED Next

\* a run that formatted the two lines of the first file and ended on the
\* missing second file, with a third file never opened
C2_Witness ==
    /\ outcome = "FileNotFoundError"
    /\ files = << F, NoFile, G >>
    /\ file_idx = 2
    /\ Len(FormatEvents) = 2
    /\ \A k \in 1..Len(events) : events[k].name = F

\* C8: in a run without errors the formatter is called once per line of every
\* source, sources in the order of the files list and lines in file order,
\* with line numbers counted from 1 in every source, and a file is closed
\* before the next one is opened.
C8_OncePerLineInOrder ==
    LET expected == IF files = NoFiles THEN ExpectedFormats(StdinName, stdin)
                    ELSE ExpectedFiles(Len(files))
    IN  /\ (Compile(pattern).op # "re.error" /\ (files # NoFiles => BadFiles = {})) =>
              /\ IsPrefix(Shapes(events), expected)
              /\ outcome = "Done" => Shapes(events) = expected
        /\ \A i, j \in 1..Len(events) :
              (i < j /\ events[i].op = "open" /\ events[j].op = "open") =>
                 \E c \in (i + 1)..(j - 1) :
                    events[c].op = "close" /\ events[c].idx = events[i].idx

\* a finished run over two files with five lines between them
C8_Witness ==
    /\ outcome = "Done"
    /\ files = << F, G >>
    /\ Len(FormatEvents) >= 5
    /\ \E k \in 1..Len(events) : events[k].op = "format" /\ events[k].name = G
                                    /\ events[k].line_no = 3

\* the record string for a match of a call, from the line's own text
RecordText(e, m) ==
    e.name \o << ":" >> \o Str(e.line_no) \o << ":" >> \o Str(m.start) \o << ":" >>
        \o SubSeq(e.line, m.start + 1, m.end)

\* a JSON array of strings none of which needs escaping, indented by 4
RECURSIVE ArrayItems(_)
ArrayItems(strs) ==
    IF strs = << >> THEN << >>
    ELSE << NL, " ", " ", " ", " ", "\"" >> \o Head(strs) \o << "\"" >>
            \o (IF Tail(strs) = << >> THEN << NL >> ELSE << "," >>)
            \o ArrayItems(Tail(strs))

ArrayText(strs) == << "[" >> \o ArrayItems(strs) \o << "]" >>

ArrayOfCall(e) == ArrayText([k \in 1..Len(e.seen) |-> RecordText(e, e.seen[k])])

\* C9: in Machine mode the artifact is what it held before the run followed
\* by one JSON array per formatter call, in call order, each listing
\* source:line:start:text for the matches of the line from left to right;
\* line 5 of a.txt, "id7", under \d+ gives "a.txt:5:2:7".
C9_ArtifactIsAppendedArrays ==
    /\ flags.machine =>
          /\ artifact = artifact0
                \o Flatten([k \in 1..Len(FormatEvents) |-> ArrayOfCall(FormatEvents[k])])
          /\ \A k \in 1..Len(FormatEvents) :
                \A i \in 2..Len(FormatEvents[k].seen) :
                    FormatEvents[k].seen[i - 1].start <= FormatEvents[k].seen[i].start
    /\ MachineData(<< "a", ".", "t", "x", "t" >>, 5,
                   Drain(Compile("\\d+"), << "i", "d", "7" >>, Finditer))
          = << << "a", ".", "t", "x", "t", ":", "5", ":", "2", ":", "7" >> >>

\* an artifact that was not empty before the run, after calls with no match,
\* with one match and with several
C9_Witness ==
    /\ flags.machine
    /\ artifact0 # << >>
    /\ Len(FormatEvents) >= 3
    /\ \E k \in 1..Len(FormatEvents) : Len(FormatEvents[k].seen) >= 2
    /\ \E k \in 1..Len(FormatEvents) : FormatEvents[k].seen = << >>

(***************************************************************************)
(* One line: the match engine and the formatters.                          *)
(***************************************************************************)
\* C3 as stated: for a line with no match Default prints nothing and Machine
\* leaves the artifact as it was.
C3_NoMatchNoRecord ==
    \A k \in 1..Len(FormatEvents) :
        LET e == FormatEvents[k]
        IN  e.seen = << >> =>
               /\ Formatter(flags) = "default" => e.out = << >>
               /\ Formatter(flags) = "machine" => e.after = e.before

\* C3 as the code has it: for a line with no match Default prints nothing,
\* and Machine prints nothing and appends the empty array [] to the artifact;
\* every Machine call makes the artifact longer and keeps what it held.
C3_NoMatchEmptyArray ==
    \A k \in 1..Len(FormatEvents) :
        LET e == FormatEvents[k]
        IN  /\ (e.seen = << >> /\ Formatter(flags) = "default") => e.out = << >>
            /\ (e.seen = << >> /\ Formatter(flags) = "machine") =>
                   /\ e.out = << >>
                   /\ e.after = e.before \o << "[", "]" >>
            /\ Formatter(flags) = "machine" =>
                   /\ IsPrefix(e.before, e.after)
                   /\ Len(e.after) > Len(e.before)

\* a Machine call on a line of two characters that has no match
C3_Witness ==
    /\ Formatter(flags) = "machine"
    /\ Len(FormatEvents) >= 1
    /\ FormatEvents[1].seen = << >>
    /\ Len(FormatEvents[1].line) >= 2
    /\ FormatEvents[1].after # FormatEvents[1].before

\* the second line has "^" at the covered offsets and " " at the others
CaretsAtCovered(e) ==
    \A p \in 1..Len(CaretLine(e)) :
        CaretLine(e)[p] = IF IsCovered(e.seen, p - 1) THEN "^" ELSE " "

\* C4 as stated: Underscore prints the line and a second line of the line's
\* length with "^" under every matched position and a space under every other.
C4_CaretLineSpansLine ==
    \A k \in 1..Len(FormatEvents) :
        LET e == FormatEvents[k]
        IN  Formatter(flags) = "underscore" =>
               /\ TwoLines(e)
               /\ CaretsAtCovered(e)
               /\ Len(CaretLine(e)) = Len(e.line)

\* C4 as the code has it: the second line ends where the last match ends (it
\* is empty when the line has no match): "^" under every matched position
\* and a space under every other position before the end of the last match,
\* and nothing for the text after the last match.
C4_CaretLineEndsAtLastMatch ==
    \A k \in 1..Len(FormatEvents) :
        LET e == FormatEvents[k]
        IN  Formatter(flags) = "underscore" =>
               /\ TwoLines(e)
               /\ CaretsAtCovered(e)
               /\ Len(CaretLine(e)) = LastEnd(e.seen)

\* an Underscore call on a line with two matches, a gap between them and
\* text after the last
C4_Witness ==
    /\ Formatter(flags) = "underscore"
    /\ Len(FormatEvents) >= 1
    /\ LET e == FormatEvents[1]
       IN  /\ Len(e.seen) = 2
           /\ e.seen[1].end < e.seen[2].start
           /\ e.seen[2].end < Len(e.line)

InLine(ln, m) == 0 <= m.start /\ m.start <= m.end /\ m.end <= Len(ln)

\* C5 as stated: the matches of a line lie in the line, each starts strictly
\* after the start of the one before and not before its end, and gaps and
\* spans in order, with the text after the last span, give the line back.
C5_StrictlyIncreasingStarts ==
    \A k \in 1..Len(FormatEvents) :
        LET e == FormatEvents[k]
        IN  /\ \A i \in 1..Len(e.seen) : InLine(e.line, e.seen[i])
            /\ \A i \in 2..Len(e.seen) :
                  /\ e.seen[i].start > e.seen[i - 1].start
                  /\ e.seen[i].start >= e.seen[i - 1].end
            /\ Rebuilt(e.line, e.seen, 0) = e.line

\* C5 as the code has it: the matches of a line lie in the line, each starts
\* at or after the end of the one before, and starts strictly after the start
\* of the one before unless that one is empty, in which case it may start at
\* the same offset but is then not empty; each carries its span's text; gaps
\* and spans in order, with the text after the last span, give the line back.
C5_NonOverlappingInOrder ==
    \A k \in 1..Len(FormatEvents) :
        LET e == FormatEvents[k]
        IN  /\ \A i \in 1..Len(e.seen) :
                  /\ InLine(e.line, e.seen[i])
                  /\ e.seen[i].group = SubSeq(e.line, e.seen[i].start + 1, e.seen[i].end)
            /\ \A i \in 2..Len(e.seen) :
                  /\ e.seen[i].start >= e.seen[i - 1].end
                  /\ \/ e.seen[i].start > e.seen[i - 1].start
                     \/ /\ e.seen[i - 1].end = e.seen[i - 1].start
                        /\ e.seen[i].end > e.seen[i].start
            /\ Rebuilt(e.line, e.seen, 0) = e.line

\* a line on which an empty match is followed by a match at the same offset
C5_Witness ==
    /\ Len(FormatEvents) >= 1
    /\ LET e == FormatEvents[1]
       IN  \E i \in 2..Len(e.seen) :
              /\ e.seen[i].start = e.seen[i - 1].start
              /\ e.seen[i].end > e.seen[i].start

\* C6: with the color escapes and resets removed, what Color prints is the
\* line and a newline; the texts between an escape and its reset are the
\* matched substrings, one pair per match, in order.
C6_ColorWrapsMatchesOnly ==
    \A k \in 1..Len(FormatEvents) :
        LET e == FormatEvents[k]
            u == Uncolored(e.out)
        IN  Formatter(flags) = "color" =>
               /\ u.balanced
               /\ u.plain = e.line \o << NL >>
               /\ u.wrapped = Groups(e.line, e.seen)

\* a Color call on a line with text before the first match, two matches and
\* text after the last
C6_Witness ==
    /\ Formatter(flags) = "color"
    /\ Len(FormatEvents) >= 1
    /\ LET e == FormatEvents[1]
       IN  /\ Len(e.seen) >= 2
           /\ e.seen[1].start > 0
           /\ LastEnd(e.seen) < Len(e.line)
           /\ e.seen[1].end > e.seen[1].start

\* C7 as stated: two calls of Default on the same source, line number and
\* match sequence object print the same text.
C7_SameObjectSameOutput ==
    (Formatter(flags) = "default" /\ pc = "called_twice_same") =>
        FormatEvents[2].out = FormatEvents[1].out

\* C7 as the code has it: the second call on the match sequence object of the
\* first finds it used up and prints nothing, so the two outputs agree only
\* for a line with no match; a second call on a new match sequence for the
\* same line prints what the first call printed.
C7_SecondCallOnUsedIterator ==
    Formatter(flags) = "default" =>
        /\ pc = "called_twice_same" =>
              /\ FormatEvents[2].seen = << >>
              /\ FormatEvents[2].out = << >>
              /\ (FormatEvents[2].out = FormatEvents[1].out)
                    <=> (FormatEvents[1].seen = << >>)
        /\ pc = "called_twice_fresh" =>
              /\ FormatEvents[2].seen = FormatEvents[1].seen
              /\ FormatEvents[2].out = FormatEvents[1].out

\* two Default calls on the iterator of a line that has matches
C7_Witness ==
    /\ Formatter(flags) = "default"
    /\ pc = "called_twice_same"
    /\ Len(FormatEvents[1].seen) >= 2
    /\ FormatEvents[1].out # << >>

CountCarets(t) == Len(SelectSeq(t, LAMBDA c : c = "^"))

\* C10: under every match the Underscore formatter's second line has carets
\* from column start for end - start columns, it has no other caret, and it
\* is as long as the line when the last match ends at the end of the line.
C10_CaretRuns ==
    \A k \in 1..Len(FormatEvents) :
        LET e == FormatEvents[k]
        IN  Formatter(flags) = "underscore" =>
               /\ TwoLines(e)
               /\ \A i \in 1..Len(e.seen) :
                     /\ Len(CaretLine(e)) >= e.seen[i].end
                     /\ \A p \in (e.seen[i].start + 1)..e.seen[i].end :
                           CaretLine(e)[p] = "^"
               /\ CountCarets(CaretLine(e)) = SumWidths(e.seen)
               /\ (e.seen # << >> /\ LastEnd(e.seen) = Len(e.line)) =>
                     Len(CaretLine(e)) = Len(e.line)

\* an Underscore call with two matches apart, the last ending the line
C10_Witness ==
    /\ Formatter(flags) = "underscore"
    /\ Len(FormatEvents) >= 1
    /\ LET e == FormatEvents[1]
       IN  /\ Len(e.seen) = 2
           /\ e.seen[1].end < e.seen[2].start
           /\ e.seen[2].end = Len(e.line)
           /\ e.seen[1].start > 0 \/ Len(e.line) = 3

====
